---------------------------- MODULE Spec2Model ----------------------------
(***************************************************************************)
(* A model of scarxity/go-pagination: the pagination request model, the    *)
(* field validators, the search clause builder, the include resolver and   *)
(* the request entry points of helpers.go.                                 *)
(*                                                                         *)
(* Strings whose characters the program inspects (sort fields, relation    *)
(* names, numeric query parameters) are sequences of one-character         *)
(* strings; strings that are only compared or concatenated are TLA+        *)
(* strings.                                                                *)
(***************************************************************************)
EXTENDS Integers, Sequences, FiniteSets, TLC

VARIABLES
    \* ---- field validators (pure functions applied to one name)
    name,            \* the string handed to a validator
    validatorCalled, \* "none", or the validator that was applied to name
    validatorResult, \* what that validator returned (FALSE before the call)
    \* ---- include resolver (a filter's Validate method)
    filterType,        \* whose Validate body the filter has
    requestedIncludes, \* the include list as bound from the request
    allowedIncludes,   \* GetAllowedIncludes(): a map from relation name to bool
    filterIncludes,    \* the filter's Includes field
    validateCalled,    \* whether Validate() has run
    \* ---- search clause builder (a query builder and CreateSearchableFilter)
    dialect,           \* the builder's dialect tag
    withDialectCalls,  \* how often WithDialect has been called on the builder
    searchFields,      \* the builder's search fields, in order
    searchTerm,        \* the raw search term of the request
    baseQuery,         \* the query handed to the search function
    query,             \* the query it returned
    searchApplied,     \* whether the search function has run
    \* ---- one request through an entry point of helpers.go
    entry,             \* the entry point the handler calls
    ctx,               \* the request's query parameters (gin.Context)
    filter,            \* the request-scoped filter: Pagination and Includes
    pc,                \* where the request is in the entry point
    storeRows,         \* how many rows of the store match the filter and search
    storeWrites,       \* how often another client has changed those rows
    exec,              \* the executor's locals: query, total, data, err
    returned,          \* what the entry point returned
    \* ---- a PaginationRequest and the calls made on it (pagination.go)
    pgParams,          \* the query parameters last bound by BindPagination
    pgRequest,         \* the PaginationRequest object
    pgBefore,          \* the object as it was before the last call
    pgMethod,          \* the last function called, "none" before the first
    pgResult,          \* the int that call returned (0 if it returns none)
    pgTotal,           \* the total handed to CalculatePagination
    pgResponse,        \* the PaginationResponse CalculatePagination returned
    pgValidated,       \* whether Validate() has run on the object
    pgCalls,           \* how many calls have been made
    goarch,            \* the architecture the program was built for
    \* ---- one call of NewPaginatedResponse (pagination.go)
    envArgs,           \* its arguments: code, message, data, pagination
    envResponse,       \* the PaginatedResponse it returned
    envCalled,         \* whether it has been called
    \* ---- a dynamic filter applied to a table
    dfFilters,         \* the filter's ordered list of FilterCondition
    dfChain,           \* the predicate chain ApplyFilters has built on the query
    dfSelected,        \* the rows of the table the query selects
    dfApplied          \* whether ApplyFilters has run

validatorVars == <<name, validatorCalled, validatorResult>>

resolverVars ==
    <<filterType, requestedIncludes, allowedIncludes, filterIncludes, validateCalled>>

searchVars ==
    <<dialect, withDialectCalls, searchFields, searchTerm, baseQuery, query,
      searchApplied>>

requestVars == <<entry, ctx, filter, pc, storeRows, storeWrites, exec, returned>>

paginationVars ==
    <<pgParams, pgRequest, pgBefore, pgMethod, pgResult, pgTotal, pgResponse,
      pgValidated, pgCalls, goarch>>

envelopeVars == <<envArgs, envResponse, envCalled>>

dynamicVars == <<dfFilters, dfChain, dfSelected, dfApplied>>

vars ==
    <<validatorVars, resolverVars, searchVars, requestVars, paginationVars,
      envelopeVars, dynamicVars>>

-----------------------------------------------------------------------------
(* Bounds *)

\* longest name enumerated exhaustively over Alphabet
MaxNameLen == 3

\* longest include list a request carries
MaxIncludes == 2

\* longest list of search fields of a builder
MaxSearchFields == 2

\* how many WithDialect calls on one builder are followed
MaxDialectCalls == 2

\* most rows of the store that match a request's filter and search
MaxRows == 5

\* longest condition list of a dynamic filter
MaxConditions == 3

\* how often another client writes to the store while a request runs
MaxWrites == 1

\* how many method calls on one PaginationRequest are followed
MaxCalls == 3

-----------------------------------------------------------------------------
(* Characters and strings *)

LowerCase ==
    {"a","b","c","d","e","f","g","h","i","j","k","l","m",
     "n","o","p","q","r","s","t","u","v","w","x","y","z"}

UpperCase ==
    {"A","B","C","D","E","F","G","H","I","J","K","L","M",
     "N","O","P","Q","R","S","T","U","V","W","X","Y","Z"}

Digits == {"0","1","2","3","4","5","6","7","8","9"}

\* The character classes of the two patterns.
FirstClass == LowerCase \cup UpperCase \cup {"_"}
RestClass == LowerCase \cup UpperCase \cup Digits \cup {"_", "."}

\* One representative of every kind of character a request can carry.
Alphabet == {"a", "Z", "7", "_", ".", " ", ";", "'"}

RECURSIVE SeqsUpTo(_, _)
SeqsUpTo(S, n) ==
    IF n = 0 THEN {<<>>}
    ELSE LET shorter == SeqsUpTo(S, n - 1)
         IN  shorter \cup {Append(s, c) : s \in {t \in shorter : Len(t) = n - 1}, c \in S}

\* the concatenation of a sequence of one-character strings, as a string
RECURSIVE Str(_)
Str(s) == IF s = <<>> THEN "" ELSE s[1] \o Str(Tail(s))

\* The names the repository's tests and documentation use.
S_name == <<"n","a","m","e">>
S_user_name == <<"u","s","e","r",".","n","a","m","e">>
S_created_at == <<"c","r","e","a","t","e","d","_","a","t">>
S_name_drop ==
    <<"n","a","m","e",";"," ","D","R","O","P"," ","T","A","B","L","E"," ",
      "u","s","e","r","s",";">>
S_name_or == <<"n","a","m","e","'"," ","O","R"," ","'","1","'","=","'","1">>
S_name_desc == <<"n","a","m","e",",","d","e","s","c">>
S_Posts == <<"P","o","s","t","s">>
S_User_Profile == <<"U","s","e","r",".","P","r","o","f","i","l","e">>
S_Posts_drop ==
    <<"P","o","s","t","s",";"," ","D","R","O","P"," ","T","A","B","L","E">>

TestNames ==
    {S_name, S_user_name, S_created_at, S_name_drop, S_name_or, S_name_desc,
     S_Posts, S_User_Profile, S_Posts_drop}

Names == SeqsUpTo(Alphabet, MaxNameLen) \cup TestNames

\* Relation names: two a filter may allow, one it must not disclose, and one
\* shaped like an injection attempt.
I_Province == <<"P","r","o","v","i","n","c","e">>
I_Sport == <<"S","p","o","r","t">>
I_Secret == <<"S","e","c","r","e","t">>
I_Inject == <<"P","'",";","-","-">>

IncludeUniverse == {I_Province, I_Sport, I_Secret, I_Inject}

IncludeLists == SeqsUpTo(IncludeUniverse, MaxIncludes)

\* every map[string]bool over the universe: a key may be absent, true or false
AllowMaps == UNION {[D -> BOOLEAN] : D \in SUBSET IncludeUniverse}

-----------------------------------------------------------------------------
(* Field validators *)

\* [a-zA-Z0-9_.]* anchored at the end of the text
RECURSIVE MatchRest(_)
MatchRest(s) ==
    IF s = <<>> THEN TRUE
    ELSE IF s[1] \in RestClass THEN MatchRest(Tail(s))
    ELSE FALSE

\* a validator that forgets the rule for the first character
isValidSortFieldAnyFirst(s) ==
    IF s = <<>> THEN FALSE ELSE MatchRest(s)

\* regexp ^[a-zA-Z_][a-zA-Z0-9_.]*$
isValidSortField(s) ==
    IF s = <<>> THEN FALSE
    ELSE IF s[1] \in FirstClass THEN MatchRest(Tail(s))
    ELSE FALSE

\* the pattern written with * where the code has +
isValidIncludeStar(s) == MatchRest(s)

\* regexp ^[a-zA-Z0-9_.]+$
isValidInclude(s) ==
    IF s = <<>> THEN FALSE
    ELSE IF s[1] \in RestClass THEN MatchRest(Tail(s))
    ELSE FALSE

ValidatorInit ==
    /\ name \in Names
    /\ validatorCalled = "none"
    /\ validatorResult = FALSE

ValidatorIdle ==
    /\ name = <<>>
    /\ validatorCalled = "none"
    /\ validatorResult = FALSE

CallIsValidSortField ==
    /\ validatorCalled = "none"
    /\ validatorCalled' = "isValidSortField"
    /\ validatorResult' = isValidSortField(name)
    /\ UNCHANGED <<name, resolverVars, searchVars, requestVars, paginationVars,
                 envelopeVars, dynamicVars>>

CallIsValidInclude ==
    /\ validatorCalled = "none"
    /\ validatorCalled' = "isValidInclude"
    /\ validatorResult' = isValidInclude(name)
    /\ UNCHANGED <<name, resolverVars, searchVars, requestVars, paginationVars,
                 envelopeVars, dynamicVars>>

-----------------------------------------------------------------------------
(* Include resolver *)

\* allowedIncludes[include] on a Go map: the zero value for an absent key
MapLookup(m, k) == IF k \in DOMAIN m THEN m[k] ELSE FALSE

\* Validate() as the example filters define it
ValidateIncludes(incl, allowed) ==
    SelectSeq(incl, LAMBDA include : MapLookup(allowed, include))

\* Validate() as the documentation's SecureUserFilter defines it
SecureValidateIncludes(incl, allowed) ==
    SelectSeq(incl, LAMBDA include :
                      IF MapLookup(allowed, include)
                      THEN isValidInclude(include)
                      ELSE FALSE)

FilterTypes == {"ExampleFilter", "SecureUserFilter"}

FilterValidate(type, incl, allowed) ==
    IF type = "SecureUserFilter"
    THEN SecureValidateIncludes(incl, allowed)
    ELSE ValidateIncludes(incl, allowed)

ResolverInit ==
    /\ filterType \in FilterTypes
    /\ requestedIncludes \in IncludeLists
    /\ allowedIncludes \in AllowMaps
    /\ filterIncludes = requestedIncludes
    /\ validateCalled = FALSE

ResolverIdle ==
    /\ filterType = "ExampleFilter"
    /\ requestedIncludes = <<>>
    /\ allowedIncludes = <<>>
    /\ filterIncludes = <<>>
    /\ validateCalled = FALSE

\* Validate() may be called any number of times on the same filter.
Validate ==
    /\ filterIncludes' = FilterValidate(filterType, filterIncludes, allowedIncludes)
    /\ validateCalled' = TRUE
    /\ UNCHANGED <<filterType, requestedIncludes, allowedIncludes>>
    /\ UNCHANGED <<validatorVars, searchVars, requestVars, paginationVars,
                 envelopeVars, dynamicVars>>

-----------------------------------------------------------------------------
(* Search clause builder *)

Dialects == {"MySQL", "PostgreSQL", "SQLite", "SQLServer"}

FieldNames == {"name", "email", "users.name"}

FieldLists == SeqsUpTo(FieldNames, MaxSearchFields)

\* plain terms and terms carrying quotes, semicolons and SQL keywords
SearchTerms == {"", "john", "x' OR '1'='1", "a%'; DROP TABLE users; --"}

\* A query is the sequence of its Where clauses: a text with ? placeholders and
\* the values bound to them.
EmptyQuery == <<>>
FilteredQuery == <<[text |-> "age > ?", args |-> <<"30">>]>>

Where(q, text, args) == Append(q, [text |-> text, args |-> args])

\* the dialect test inverted
SearchOperatorInverted(d) == IF d # "PostgreSQL" THEN "ILIKE" ELSE "LIKE"

\* the operator chosen from the dialect
SearchOperator(d) == IF d = "PostgreSQL" THEN "ILIKE" ELSE "LIKE"

\* the builder's own accessor
GetSearchOperator(d) ==
    CASE d = "PostgreSQL" -> "ILIKE"
      [] d = "MySQL" -> "LIKE"
      [] d = "SQLite" -> "LIKE"
      [] OTHER -> "LIKE"

\* strings.Join
RECURSIVE Join(_, _)
Join(parts, sep) ==
    IF parts = <<>> THEN ""
    ELSE IF Len(parts) = 1 THEN parts[1]
    ELSE parts[1] \o sep \o Join(Tail(parts), sep)

\* a search function that writes the term into the query text
CreateSearchableFilterInline(fields, d, q, term) ==
    IF Len(fields) = 0 \/ term = "" THEN q
    ELSE LET operator == SearchOperator(d)
             conditions == [i \in 1..Len(fields) |->
                              fields[i] \o " " \o operator \o " '%" \o term \o "%'"]
         IN  IF Len(fields) = 1
             THEN Where(q, conditions[1], <<>>)
             ELSE Where(q, "(" \o Join(conditions, " OR ") \o ")", <<>>)

\* a search function that takes the one-field branch whenever there are fields
CreateSearchableFilterFirstOnly(fields, d, q, term) ==
    IF Len(fields) = 0 \/ term = "" THEN q
    ELSE Where(q, fields[1] \o " " \o SearchOperator(d) \o " ?",
               <<"%" \o term \o "%">>)

\* the function CreateSearchableFilter(fields, d) returns, applied to (q, term)
CreateSearchableFilter(fields, d, q, term) ==
    IF Len(fields) = 0 \/ term = "" THEN q
    ELSE LET searchPattern == "%" \o term \o "%"
             operator == SearchOperator(d)
         IN  IF Len(fields) = 1
             THEN Where(q, fields[1] \o " " \o operator \o " ?", <<searchPattern>>)
             ELSE LET conditions == [i \in 1..Len(fields) |->
                                       fields[i] \o " " \o operator \o " ?"]
                      args == [i \in 1..Len(fields) |-> searchPattern]
                      whereClause == "(" \o Join(conditions, " OR ") \o ")"
                  IN  Where(q, whereClause, args)

SearchInit ==
    /\ dialect \in Dialects
    /\ withDialectCalls = 0
    /\ searchFields \in FieldLists
    /\ searchTerm \in SearchTerms
    /\ baseQuery \in {EmptyQuery, FilteredQuery}
    /\ query = baseQuery
    /\ searchApplied = FALSE

SearchIdle ==
    /\ dialect = "MySQL"
    /\ withDialectCalls = 0
    /\ searchFields = <<>>
    /\ searchTerm = ""
    /\ baseQuery = EmptyQuery
    /\ query = EmptyQuery
    /\ searchApplied = FALSE

\* builder.WithDialect(d)
WithDialect ==
    /\ ~searchApplied
    /\ withDialectCalls < MaxDialectCalls
    /\ \E d \in Dialects : dialect' = d
    /\ withDialectCalls' = withDialectCalls + 1
    /\ UNCHANGED <<searchFields, searchTerm, baseQuery, query, searchApplied>>
    /\ UNCHANGED <<validatorVars, resolverVars, requestVars, paginationVars,
                 envelopeVars, dynamicVars>>

\* the search function of the builder applied to the request's term
ApplySearchClause ==
    /\ ~searchApplied
    /\ query' = CreateSearchableFilter(searchFields, dialect, baseQuery, searchTerm)
    /\ searchApplied' = TRUE
    /\ UNCHANGED <<dialect, withDialectCalls, searchFields, searchTerm, baseQuery>>
    /\ UNCHANGED <<validatorVars, resolverVars, requestVars, paginationVars,
                 envelopeVars, dynamicVars>>

-----------------------------------------------------------------------------
(* The pagination model (pagination.go) *)

\* a []T that is nil, and one that holds rows
Nil == [nil |-> TRUE, rows |-> <<>>]
Rows(r) == [nil |-> FALSE, rows |-> r]

\* PaginationResponse{}
ZeroPaginationResponse ==
    [Page |-> 0, PerPage |-> 0, MaxPage |-> 0, Total |-> 0, IsDisabled |-> FALSE]

\* The machine word of int and int64, and the significand of float64, each
\* scaled down so that the same relation holds between them as between 64 and
\* 53 bits: not every int is a float64.
IntBits == 16
FloatBits == 12

RECURSIVE Pow2(_)
Pow2(k) == IF k = 0 THEN 1 ELSE 2 * Pow2(k - 1)

MaxInt == Pow2(IntBits - 1) - 1
MinInt == 0 - Pow2(IntBits - 1)

\* the value an int holds after an arithmetic operation: two's complement
WrapInt(x) == ((x + Pow2(IntBits - 1)) % Pow2(IntBits)) - Pow2(IntBits - 1)

Abs(x) == IF x < 0 THEN 0 - x ELSE x

\* n/d rounded to the nearest integer, ties to even (n >= 0, d > 0)
RoundHalfEven(n, d) ==
    LET q == n \div d
        r == n % d
    IN  IF 2 * r > d \/ (2 * r = d /\ q % 2 = 1) THEN q + 1 ELSE q

\* the spacing of the floats around n >= 0
RECURSIVE Ulp(_, _)
Ulp(n, u) == IF n < Pow2(FloatBits) * u THEN u ELSE Ulp(n, 2 * u)

\* float64(n): the float nearest to the integer n
Float64(n) ==
    LET u == Ulp(Abs(n), 1)
        r == RoundHalfEven(Abs(n), u) * u
    IN  IF n < 0 THEN 0 - r ELSE r

\* n/d brought to n/(d * 2^e) with a quotient of FloatBits bits
RECURSIVE Scale(_, _, _)
Scale(n, d, e) ==
    IF n >= Pow2(FloatBits) * d THEN Scale(n, 2 * d, e + 1)
    ELSE IF n < Pow2(FloatBits - 1) * d THEN Scale(2 * n, d, e - 1)
    ELSE [n |-> n, d |-> d, e |-> e]

\* a / b in float64, for floats a and b with integer values: NaN, an infinity,
\* or the correctly rounded quotient mant * 2^e with its sign
FloatDiv(a, b) ==
    IF b = 0
    THEN IF a = 0 THEN [kind |-> "NaN", neg |-> FALSE, mant |-> 0, e |-> 0]
         ELSE [kind |-> "Inf", neg |-> a < 0, mant |-> 0, e |-> 0]
    ELSE IF a = 0
    THEN [kind |-> "finite", neg |-> b < 0, mant |-> 0, e |-> 0]
    ELSE LET s == Scale(Abs(a), Abs(b), 0)
         IN  [kind |-> "finite", neg |-> (a < 0) # (b < 0),
              mant |-> RoundHalfEven(s.n, s.d), e |-> s.e]

\* math.Ceil
Ceil(f) ==
    IF f.kind # "finite" \/ f.e >= 0 THEN f
    ELSE LET d == Pow2(0 - f.e)
             up == (f.mant + d - 1) \div d
             down == f.mant \div d
         IN  [f EXCEPT !.mant = IF f.neg THEN down ELSE up, !.e = 0]

\* the architectures whose float to integer conversions differ
GoArchs == {"amd64", "arm64"}

\* int64(f): the integer for a float in range; for NaN, an infinity or a
\* float out of range the result depends on the architecture (amd64 gives
\* the smallest integer, arm64 gives 0 for NaN and saturates otherwise)
Int64(f) ==
    LET tooBig == f.kind = "Inf" \/ (f.kind = "finite" /\ f.e > IntBits)
        mag == IF f.kind = "finite" /\ ~tooBig THEN f.mant * Pow2(f.e) ELSE 0
        val == IF f.neg THEN 0 - mag ELSE mag
        outOfRange == tooBig \/ val > MaxInt \/ val < MinInt
    IN  IF f.kind = "NaN"
        THEN IF goarch = "amd64" THEN MinInt ELSE 0
        ELSE IF outOfRange
        THEN IF goarch = "amd64" THEN MinInt
             ELSE IF f.neg THEN MinInt ELSE MaxInt
        ELSE val

DigitValue(c) ==
    CASE c = "0" -> 0 [] c = "1" -> 1 [] c = "2" -> 2 [] c = "3" -> 3
      [] c = "4" -> 4 [] c = "5" -> 5 [] c = "6" -> 6 [] c = "7" -> 7
      [] c = "8" -> 8 [] c = "9" -> 9

RECURSIVE ParseDigits(_, _)
ParseDigits(s, acc) ==
    IF s = <<>> THEN acc
    ELSE ParseDigits(Tail(s), acc * 10 + DigitValue(s[1]))

\* strconv.Atoi: an optional sign and decimal digits; a syntax error
\* otherwise, a range error when the number does not fit an int
Atoi(s) ==
    LET signed == s # <<>> /\ s[1] \in {"+", "-"}
        body == IF signed THEN Tail(s) ELSE s
        allDigits == body # <<>> /\ \A i \in 1..Len(body) : body[i] \in Digits
        val == IF ~allDigits THEN 0
               ELSE IF signed /\ s[1] = "-"
               THEN 0 - ParseDigits(body, 0)
               ELSE ParseDigits(body, 0)
    IN  IF ~allDigits THEN [err |-> TRUE, val |-> 0]
        ELSE IF val > MaxInt THEN [err |-> TRUE, val |-> MaxInt]
        ELSE IF val < MinInt THEN [err |-> TRUE, val |-> MinInt]
        ELSE [err |-> FALSE, val |-> val]

LowerLetters ==
    <<"a","b","c","d","e","f","g","h","i","j","k","l","m",
      "n","o","p","q","r","s","t","u","v","w","x","y","z">>

UpperLetters ==
    <<"A","B","C","D","E","F","G","H","I","J","K","L","M",
      "N","O","P","Q","R","S","T","U","V","W","X","Y","Z">>

\* strings.ToLower
ToLower(s) ==
    [i \in 1..Len(s) |->
        IF \E k \in 1..Len(UpperLetters) : UpperLetters[k] = s[i]
        THEN LowerLetters[CHOOSE k \in 1..Len(UpperLetters) : UpperLetters[k] = s[i]]
        ELSE s[i]]

\* the values of is_disabled that switch paging off
TruthyValues ==
    {<<"1">>, <<"t","r","u","e">>, <<"y","e","s">>, <<"y">>, <<"o","n">>}

\* GetOffset() without the clamp of the page
GetOffsetNoClamp(p) == [p |-> p, ret |-> WrapInt((p.Page - 1) * p.PerPage)]

\* GetLimit() that returns the field as it is
GetLimitNoDefault(p) == [p |-> p, ret |-> p.PerPage]

\* (p *PaginationRequest) GetOffset(): the request as left behind, and the result
GetOffset(p) ==
    LET q == IF p.Page <= 0 THEN [p EXCEPT !.Page = 1] ELSE p
    IN  [p |-> q, ret |-> WrapInt((q.Page - 1) * q.PerPage)]

\* (p *PaginationRequest) GetLimit()
GetLimit(p) ==
    LET q == IF p.PerPage <= 0 THEN [p EXCEPT !.PerPage = 10] ELSE p
    IN  [p |-> q, ret |-> q.PerPage]

\* Validate() without the clamp of the page
PaginationValidateNoPage(p) ==
    LET p2 == IF p.PerPage <= 0 THEN [p EXCEPT !.PerPage = 10] ELSE p
    IN  IF p2.Order # "asc" /\ p2.Order # "desc"
        THEN [p2 EXCEPT !.Order = "asc"]
        ELSE p2

\* Validate() that replaces only an empty order
PaginationValidateEmptyOrder(p) ==
    LET p1 == IF p.Page <= 0 THEN [p EXCEPT !.Page = 1] ELSE p
        p2 == IF p1.PerPage <= 0 THEN [p1 EXCEPT !.PerPage = 10] ELSE p1
    IN  IF p2.Order = "" THEN [p2 EXCEPT !.Order = "asc"] ELSE p2

\* Validate() that also drops the sort
PaginationValidateNoSort(p) ==
    [PaginationValidateEmptyOrder(p) EXCEPT !.Sort = <<>>, !.Order = "asc"]

\* (p *PaginationRequest) Validate()
PaginationValidate(p) ==
    LET p1 == IF p.Page <= 0 THEN [p EXCEPT !.Page = 1] ELSE p
        p2 == IF p1.PerPage <= 0 THEN [p1 EXCEPT !.PerPage = 10] ELSE p1
        p3 == IF p2.Order = "" THEN [p2 EXCEPT !.Order = "asc"] ELSE p2
    IN  IF p3.Order # "asc" /\ p3.Order # "desc"
        THEN [p3 EXCEPT !.Order = "asc"]
        ELSE p3

\* BindPagination without the upper limit on per_page
BindPaginationNoCap(c) ==
    LET page == Atoi(c.page)
        perPage == Atoi(c.per_page)
    IN  PaginationValidate(
            [Page |-> IF c.page # <<>> /\ ~page.err /\ page.val > 0
                      THEN page.val ELSE 1,
             PerPage |-> IF c.per_page # <<>> /\ ~perPage.err /\ perPage.val > 0
                         THEN perPage.val ELSE 10,
             Search |-> c.search,
             Sort |-> c.sort,
             Order |-> IF c.order = "desc" \/ c.order = "asc" THEN c.order ELSE "asc",
             IsDisabled |-> IF c.is_disabled # <<>>
                            THEN ToLower(c.is_disabled) \in TruthyValues
                            ELSE FALSE])

\* BindPagination without the binding of order
BindPaginationNoOrder(c) ==
    PaginationValidate(
        [Page |-> 1, PerPage |-> 10, Search |-> c.search, Sort |-> c.sort,
         Order |-> "asc", IsDisabled |-> FALSE])

\* BindPagination that clamps per_page to the nearest bound
BindPaginationClamp(c) ==
    LET page == Atoi(c.page)
        perPage == Atoi(c.per_page)
    IN  PaginationValidate(
            [Page |-> IF c.page # <<>> /\ ~page.err /\ page.val > 0
                      THEN page.val ELSE 1,
             PerPage |-> IF c.per_page = <<>> \/ perPage.err THEN 10
                         ELSE IF perPage.val > 100 THEN 100
                         ELSE IF perPage.val <= 0 THEN 1
                         ELSE perPage.val,
             Search |-> c.search,
             Sort |-> c.sort,
             Order |-> IF c.order = "desc" \/ c.order = "asc" THEN c.order ELSE "asc",
             IsDisabled |-> IF c.is_disabled # <<>>
                            THEN ToLower(c.is_disabled) \in TruthyValues
                            ELSE FALSE])

\* BindPagination(ctx)
BindPagination(c) ==
    LET page == Atoi(c.page)
        perPage == Atoi(c.per_page)
        pagination ==
            [Page |-> IF c.page # <<>> /\ ~page.err /\ page.val > 0
                      THEN page.val ELSE 1,
             PerPage |-> IF /\ c.per_page # <<>>
                            /\ ~perPage.err
                            /\ perPage.val > 0
                            /\ perPage.val <= 100
                         THEN perPage.val ELSE 10,
             Search |-> c.search,
             Sort |-> c.sort,
             Order |-> IF c.order = "desc" \/ c.order = "asc" THEN c.order ELSE "asc",
             IsDisabled |-> IF c.is_disabled # <<>>
                            THEN ToLower(c.is_disabled) \in TruthyValues
                            ELSE FALSE]
    IN  PaginationValidate(pagination)

\* the quotient rounded down instead of up
FloorDiv(total, perPage) == total \div perPage

\* int64(math.Ceil(float64(totalCount) / float64(pagination.PerPage)))
CeilDiv(total, perPage) ==
    Int64(Ceil(FloatDiv(Float64(total), Float64(perPage))))

\* CalculatePagination that pays no attention to IsDisabled
CalculatePaginationPaged(p, totalCount) ==
    LET maxPage == CeilDiv(totalCount, p.PerPage)
    IN  [Page |-> p.Page,
         PerPage |-> p.PerPage,
         MaxPage |-> IF maxPage = 0 THEN 1 ELSE maxPage,
         Total |-> totalCount,
         IsDisabled |-> FALSE]

\* CalculatePagination(pagination, totalCount)
CalculatePagination(p, totalCount) ==
    IF p.IsDisabled
    THEN [Page |-> 1, PerPage |-> totalCount, MaxPage |-> 1,
          Total |-> totalCount, IsDisabled |-> TRUE]
    ELSE LET maxPage == CeilDiv(totalCount, p.PerPage)
         IN  [Page |-> p.Page,
              PerPage |-> p.PerPage,
              MaxPage |-> IF maxPage = 0 THEN 1 ELSE maxPage,
              Total |-> totalCount,
              IsDisabled |-> FALSE]

\* NewPaginatedResponse that reports an error from code 500 on
NewPaginatedResponseFrom500(code, message, data, pagination) ==
    [Code |-> code,
     Status |-> IF code >= 500 THEN "error" ELSE "success",
     Message |-> message,
     Data |-> data,
     Pagination |-> pagination]

\* NewPaginatedResponse(code, message, data, pagination)
NewPaginatedResponse(code, message, data, pagination) ==
    [Code |-> code,
     Status |-> IF code >= 400 THEN "error" ELSE "success",
     Message |-> message,
     Data |-> data,
     Pagination |-> pagination]

-----------------------------------------------------------------------------
(* A PaginationRequest and the calls a program makes on it *)

\* Page and PerPage of a request a program builds itself
PageValues == {-1, 0, 1, 2, MaxInt}
PerPageValues == {MinInt, -10, 0, 1, 10, 20, 100, 101, MaxInt}
OrderValues == {"", "asc", "desc", "DESC"}

\* a request without search and sort, and one with both
SearchSorts == {<<"", <<>>>>, <<"john", S_name>>}

Requests ==
    {[Page |-> page, PerPage |-> perPage, Search |-> ss[1], Sort |-> ss[2],
      Order |-> order, IsDisabled |-> isDisabled] :
        page \in PageValues, perPage \in PerPageValues, ss \in SearchSorts,
        order \in OrderValues, isDisabled \in BOOLEAN}

\* the totals handed to CalculatePagination: none, the test's 25, an exact
\* multiple of 10, the first integer that is no float64, the largest int64
TotalValues == {0, 25, 30, Pow2(FloatBits) + 1, MaxInt}

\* the decimal digits of a number >= 0, as a client writes it in a query
RECURSIVE Itoa(_)
Itoa(n) ==
    LET digit(d) == CHOOSE c \in Digits : DigitValue(c) = d
    IN  IF n < 10 THEN <<digit(n)>>
        ELSE Append(Itoa(n \div 10), digit(n % 10))

\* query parameters of a request: absent, usable, and unusable in each way
ParamPages ==
    {<<>>, <<"0">>, <<"2">>, <<"a">>, <<"9","9","9","9","9">>, Itoa(MaxInt)}
ParamPerPages ==
    {<<>>, <<"0">>, <<"-","5">>, <<"2","0">>, <<"1","0","0">>, <<"1","0","1">>,
     <<"x">>}
ParamOrders == {"", "asc", "desc", "DESC"}
ParamDisabled == {<<>>, <<"T","r","u","e">>, <<"n","o">>}

ParamContexts ==
    [page : ParamPages, per_page : ParamPerPages, search : {""}, sort : {<<>>},
     order : ParamOrders, is_disabled : ParamDisabled]

NoParams ==
    [page |-> <<>>, per_page |-> <<>>, search |-> "", sort |-> <<>>,
     order |-> "", is_disabled |-> <<>>]

\* PaginationRequest{}
ZeroPaginationRequest ==
    [Page |-> 0, PerPage |-> 0, Search |-> "", Sort |-> <<>>, Order |-> "",
     IsDisabled |-> FALSE]

PaginationInit ==
    /\ pgParams = NoParams
    /\ pgRequest \in Requests
    /\ pgBefore = ZeroPaginationRequest
    /\ pgMethod = "none"
    /\ pgResult = 0
    /\ pgTotal = 0
    /\ pgResponse = ZeroPaginationResponse
    /\ pgValidated = FALSE
    /\ pgCalls = 0
    /\ goarch \in GoArchs

PaginationIdle ==
    /\ pgParams = NoParams
    /\ pgRequest = ZeroPaginationRequest
    /\ pgBefore = ZeroPaginationRequest
    /\ pgMethod = "none"
    /\ pgResult = 0
    /\ pgTotal = 0
    /\ pgResponse = ZeroPaginationResponse
    /\ pgValidated = FALSE
    /\ pgCalls = MaxCalls
    /\ goarch = "amd64"

\* pagination := BindPagination(ctx): the program takes its request from the
\* query parameters and not from a literal; the request is validated before
\* it is returned
CallBindPagination ==
    /\ pgMethod = "none"
    /\ \E c \in ParamContexts :
         /\ pgParams' = c
         /\ pgRequest' = BindPagination(c)
    /\ pgBefore' = ZeroPaginationRequest
    /\ pgMethod' = "BindPagination"
    /\ pgResult' = 0
    /\ pgTotal' = 0
    /\ pgResponse' = ZeroPaginationResponse
    /\ pgValidated' = TRUE
    /\ pgCalls' = 0
    /\ UNCHANGED goarch
    /\ UNCHANGED <<validatorVars, resolverVars, searchVars, requestVars,
                 envelopeVars, dynamicVars>>

\* pagination.Validate()
CallValidate ==
    /\ pgCalls < MaxCalls
    /\ pgBefore' = pgRequest
    /\ pgRequest' = PaginationValidate(pgRequest)
    /\ pgMethod' = "Validate"
    /\ pgResult' = 0
    /\ pgValidated' = TRUE
    /\ pgCalls' = pgCalls + 1
    /\ UNCHANGED <<pgParams, pgTotal, pgResponse, goarch>>
    /\ UNCHANGED <<validatorVars, resolverVars, searchVars, requestVars,
                 envelopeVars, dynamicVars>>

\* pagination.GetOffset()
CallGetOffset ==
    /\ pgCalls < MaxCalls
    /\ pgBefore' = pgRequest
    /\ pgRequest' = GetOffset(pgRequest).p
    /\ pgMethod' = "GetOffset"
    /\ pgResult' = GetOffset(pgRequest).ret
    /\ pgCalls' = pgCalls + 1
    /\ UNCHANGED <<pgParams, pgTotal, pgResponse, pgValidated, goarch>>
    /\ UNCHANGED <<validatorVars, resolverVars, searchVars, requestVars,
                 envelopeVars, dynamicVars>>

\* pagination.GetLimit()
CallGetLimit ==
    /\ pgCalls < MaxCalls
    /\ pgBefore' = pgRequest
    /\ pgRequest' = GetLimit(pgRequest).p
    /\ pgMethod' = "GetLimit"
    /\ pgResult' = GetLimit(pgRequest).ret
    /\ pgCalls' = pgCalls + 1
    /\ UNCHANGED <<pgParams, pgTotal, pgResponse, pgValidated, goarch>>
    /\ UNCHANGED <<validatorVars, resolverVars, searchVars, requestVars,
                 envelopeVars, dynamicVars>>

\* CalculatePagination(pagination, totalCount): the request is passed by value
CallCalculatePagination ==
    /\ pgCalls < MaxCalls
    /\ \E totalCount \in TotalValues :
         /\ pgTotal' = totalCount
         /\ pgResponse' = CalculatePagination(pgRequest, totalCount)
    /\ pgBefore' = pgRequest
    /\ pgMethod' = "CalculatePagination"
    /\ pgResult' = 0
    /\ pgCalls' = pgCalls + 1
    /\ UNCHANGED <<pgParams, pgRequest, pgValidated, goarch>>
    /\ UNCHANGED <<validatorVars, resolverVars, searchVars, requestVars,
                 envelopeVars, dynamicVars>>

-----------------------------------------------------------------------------
(* The response envelope *)

\* the codes a handler answers with, on both sides of 400
StatusCodes == {-1, 0, 200, 201, 399, 400, 404, 500}

EnvelopeMessages == {"Success", "Bad Request"}

EnvelopeData == {Nil, Rows(<<1, 2>>)}

EnvelopePaginations ==
    {ZeroPaginationResponse,
     [Page |-> 1, PerPage |-> 10, MaxPage |-> 1, Total |-> 2, IsDisabled |-> FALSE],
     [Page |-> 1, PerPage |-> 2, MaxPage |-> 1, Total |-> 2, IsDisabled |-> TRUE]}

\* PaginatedResponse{}
ZeroPaginatedResponse ==
    [Code |-> 0, Status |-> "", Message |-> "", Data |-> Nil,
     Pagination |-> ZeroPaginationResponse]

EnvelopeInit ==
    /\ envArgs \in [code : StatusCodes, message : EnvelopeMessages,
                    data : EnvelopeData, pagination : EnvelopePaginations]
    /\ envResponse = ZeroPaginatedResponse
    /\ envCalled = FALSE

EnvelopeIdle ==
    /\ envArgs = [code |-> 0, message |-> "Success", data |-> Nil,
                  pagination |-> ZeroPaginationResponse]
    /\ envResponse = NewPaginatedResponse(0, "Success", Nil, ZeroPaginationResponse)
    /\ envCalled = TRUE

\* response := NewPaginatedResponse(code, message, data, pagination)
CallNewPaginatedResponse ==
    /\ ~envCalled
    /\ envResponse' = NewPaginatedResponse(envArgs.code, envArgs.message,
                                           envArgs.data, envArgs.pagination)
    /\ envCalled' = TRUE
    /\ UNCHANGED envArgs
    /\ UNCHANGED <<validatorVars, resolverVars, searchVars, requestVars,
                   paginationVars, dynamicVars>>

-----------------------------------------------------------------------------
(* The dynamic filter *)

\* the ages of the rows the tests seed
Ages == {25, 30, 35, 28, 32}

\* the operators a FilterCondition may carry
FilterOperators == {"=", "!=", ">", ">=", "<", "<=", "LIKE"}

\* the conditions enumerated: comparisons of the age column
Conditions ==
    [Field : {"age"}, Operator : {"=", ">", "<"}, Value : {28, 30, 32},
     Logic : {"AND", "OR"}]

ConditionLists ==
    UNION {[1..n -> Conditions] : n \in 0..MaxConditions}

\* whether a row with the given age satisfies "age <operator> value"
Holds(operator, age, value) ==
    CASE operator = "="  -> age = value
      [] operator = "!=" -> age # value
      [] operator = ">"  -> age > value
      [] operator = ">=" -> age >= value
      [] operator = "<"  -> age < value
      [] operator = "<=" -> age <= value

\* The predicate chain of a condition list: every condition compiled to
\* "field operator ?" with its value as the argument, joined to the chain
\* before it by the logic of the condition that precedes it.
CompileConditions(filters) ==
    [i \in 1..Len(filters) |->
        [join |-> IF i = 1 THEN "" ELSE filters[i - 1].Logic,
         text |-> filters[i].Field \o " " \o filters[i].Operator \o " ?",
         operator |-> filters[i].Operator,
         arg |-> filters[i].Value]]

\* a chain in which AND binds tighter than OR: a row is selected when it
\* satisfies every predicate of one of the groups that the ORs separate
EvalChainAndFirst(chain, age) ==
    \/ chain = <<>>
    \/ \E i \in 1..Len(chain) :
         /\ (i = 1 \/ chain[i].join = "OR")
         /\ \E k \in i..Len(chain) :
              /\ (k = Len(chain) \/ chain[k + 1].join = "OR")
              /\ \A j \in i..k :
                   /\ (j > i => chain[j].join # "OR")
                   /\ Holds(chain[j].operator, age, chain[j].arg)

\* whether the store selects a row under a chain: the predicates are applied
\* one after the other to what the chain before them selects
RECURSIVE EvalPrefix(_, _, _, _)
EvalPrefix(chain, age, i, acc) ==
    IF i > Len(chain) THEN acc
    ELSE EvalPrefix(chain, age, i + 1,
             IF chain[i].join = "OR"
             THEN acc \/ Holds(chain[i].operator, age, chain[i].arg)
             ELSE acc /\ Holds(chain[i].operator, age, chain[i].arg))

EvalChain(chain, age) == EvalPrefix(chain, age, 1, TRUE)

DynamicInit ==
    /\ dfFilters \in ConditionLists
    /\ dfChain = <<>>
    /\ dfSelected = Ages
    /\ dfApplied = FALSE

DynamicIdle ==
    /\ dfFilters = <<>>
    /\ dfChain = <<>>
    /\ dfSelected = Ages
    /\ dfApplied = TRUE

\* query = filter.ApplyFilters(query), and the rows the query then selects
ApplyDynamicFilters ==
    /\ ~dfApplied
    /\ dfChain' = CompileConditions(dfFilters)
    /\ dfSelected' = {age \in Ages : EvalChain(CompileConditions(dfFilters), age)}
    /\ dfApplied' = TRUE
    /\ UNCHANGED dfFilters
    /\ UNCHANGED <<validatorVars, resolverVars, searchVars, requestVars,
                   paginationVars, envelopeVars>>

-----------------------------------------------------------------------------
(* One request through an entry point (helpers.go) and the executor *)

\* entry points that bind the pagination themselves and build a
\* SimpleQueryBuilder from a table name
BuilderEntries ==
    {"PaginateModel", "PaginateWithIncludes", "PaginateWithFilter", "QuickPaginate",
     "PaginatedAPIResponse", "PaginatedAPIResponseWithIncludes"}

\* entry points that are handed a request-scoped filter
FilterEntries ==
    {"PaginateWithCustomFilter", "PaginatedAPIResponseWithCustomFilter",
     "PaginatedAPIResponseWithQueryLayer", "BindAndValidateFilter"}

\* entry points that return ([]T, PaginationResponse, error)
PaginateEntries ==
    {"PaginateModel", "PaginateWithIncludes", "PaginateWithFilter", "QuickPaginate",
     "PaginateWithCustomFilter"}

\* entry points that return a PaginatedResponse
APIEntries ==
    {"PaginatedAPIResponse", "PaginatedAPIResponseWithIncludes",
     "PaginatedAPIResponseWithCustomFilter", "PaginatedAPIResponseWithQueryLayer"}

Entries == BuilderEntries \cup FilterEntries

\* no entry point calls the filter's Validate()
NoValidatingEntries == {}

\* entry points that call the filter's Validate()
ValidatingEntries == {"PaginatedAPIResponseWithQueryLayer", "BindAndValidateFilter"}

I_PlayersEvents == <<"P","l","a","y","e","r","s","E","v","e","n","t","s">>

\* AthleteFilter.GetAllowedIncludes()
GetAllowedIncludes ==
    (I_Province :> TRUE) @@ (I_Sport :> TRUE) @@ (I_PlayersEvents :> TRUE)

\* AthleteFilter.GetSearchFields()
GetSearchFields == <<"name">>

\* AthleteFilter.GetDefaultSort()
GetDefaultSort == "id asc"

\* the dialect the example server opens its store with
StoreDialect == "MySQL"

\* the includes a handler passes to PaginateWithIncludes
HandlerIncludes == <<I_Province>>

\* Query parameters of a request; <<>> and "" are an absent parameter.
QueryPages == {<<>>, <<"2">>}
QueryPerPages == {<<>>, <<"2">>}
QuerySorts == {<<>>, S_name, S_name_desc, S_name_drop}
QueryOrders == {"", "desc", "DESC"}
QuerySearches == {"", "john"}
QueryDisabled == {<<>>, <<"T","r","u","e">>}
QueryIncludes == {<<>>, <<I_Province>>, <<I_Province, I_Secret>>, <<I_Inject>>}

Contexts ==
    [page : QueryPages, per_page : QueryPerPages, search : QuerySearches,
     sort : QuerySorts, order : QueryOrders, is_disabled : QueryDisabled,
     includes : QueryIncludes,
     bindError : BOOLEAN]     \* whether ShouldBindQuery(filter) rejects the query

NewFilter == [Pagination |-> ZeroPaginationRequest, Includes |-> <<>>]

\* no query has run
NoQuery == [wheres |-> <<>>, paged |-> FALSE, limit |-> 0, offset |-> 0]

NewExec ==
    [pagination |-> ZeroPaginationRequest,   \* the pagination argument
     includes |-> <<>>,                      \* the includes argument
     wheres |-> <<>>, orderBy |-> "", paged |-> FALSE, limit |-> 0, offset |-> 0,
     preloads |-> <<>>,
     total |-> 0, data |-> Nil, err |-> "",
     failedAt |-> "",                        \* the step that failed: bind, count, fetch
     steps |-> <<>>,                         \* the executor steps taken, in order
     calls |-> <<>>,                         \* the calls the entry point made, in order
     countQuery |-> NoQuery,                 \* the query the count ran
     fetchQuery |-> NoQuery]                 \* the query the fetch ran

NothingReturned ==
    [values |-> [data |-> Nil, pagination |-> ZeroPaginationResponse, err |-> ""],
     response |-> NewPaginatedResponse(0, "", Nil, ZeroPaginationResponse)]

RequestInit ==
    /\ entry \in Entries
    /\ ctx \in Contexts
    \* an entry point that binds no filter reads neither parameter
    /\ entry \in BuilderEntries => (ctx.includes = <<>> /\ ~ctx.bindError)
    /\ filter = NewFilter
    /\ pc = "start"
    /\ storeRows \in 0..MaxRows
    /\ storeWrites = 0
    /\ exec = NewExec
    /\ returned = NothingReturned

RequestIdle ==
    /\ entry = "PaginateModel"
    /\ ctx = [page |-> <<>>, per_page |-> <<>>, search |-> "", sort |-> <<>>,
              order |-> "", is_disabled |-> <<>>, includes |-> <<>>,
              bindError |-> FALSE]
    /\ filter = NewFilter
    /\ pc = "returned"
    /\ storeRows = 0
    /\ storeWrites = 0
    /\ exec = NewExec
    /\ returned = NothingReturned

\* BindPagination(ctx), or filter.BindPagination(ctx) and ctx.ShouldBindQuery(filter)
BindRequest ==
    /\ pc = "start"
    /\ IF entry \in BuilderEntries
       THEN /\ filter' = [Pagination |-> BindPagination(ctx),
                          Includes |-> IF entry \in {"PaginateWithIncludes",
                                                     "PaginatedAPIResponseWithIncludes"}
                                       THEN HandlerIncludes ELSE <<>>]
            /\ pc' = "normalize"
            /\ exec' = [exec EXCEPT !.calls = <<"BindPagination">>]
       ELSE IF ctx.bindError
       THEN /\ filter' = [filter EXCEPT !.Pagination = BindPagination(ctx)]
            /\ exec' = [exec EXCEPT !.err = "bind failed", !.failedAt = "bind",
                                    !.calls = <<"BindPagination", "ShouldBindQuery">>]
            /\ pc' = "assemble"
       ELSE /\ filter' = [Pagination |-> BindPagination(ctx), Includes |-> ctx.includes]
            /\ pc' = IF entry \in ValidatingEntries THEN "validate" ELSE "normalize"
            /\ exec' = [exec EXCEPT !.calls = <<"BindPagination", "ShouldBindQuery">>]
    /\ UNCHANGED <<entry, ctx, storeRows, storeWrites, returned>>
    /\ UNCHANGED <<validatorVars, resolverVars, searchVars, paginationVars,
                 envelopeVars, dynamicVars>>

\* validator.Validate()
ValidateFilter ==
    /\ pc = "validate"
    /\ filter' = [filter EXCEPT
                    !.Includes = ValidateIncludes(filter.Includes, GetAllowedIncludes)]
    /\ pc' = IF entry = "BindAndValidateFilter" THEN "assemble" ELSE "normalize"
    /\ exec' = [exec EXCEPT !.calls = Append(@, "Validate")]
    /\ UNCHANGED <<entry, ctx, storeRows, storeWrites, returned>>
    /\ UNCHANGED <<validatorVars, resolverVars, searchVars, paginationVars,
                 envelopeVars, dynamicVars>>

\* the query an entry point runs: the handler's query function on the query
\* layer, PaginatedQuery on the others
QueryCall ==
    IF entry = "PaginatedAPIResponseWithQueryLayer" THEN "queryFunc"
    ELSE "PaginatedQuery"

\* The executor is entered with the pagination and the includes of the filter.
Normalize ==
    /\ pc = "normalize"
    /\ exec' = [exec EXCEPT !.pagination = PaginationValidate(filter.Pagination),
                            !.includes = filter.Includes,
                            !.steps = Append(@, "Normalize"),
                            !.calls = Append(@, QueryCall)]
    /\ pc' = "filters"
    /\ UNCHANGED <<entry, ctx, filter, storeRows, storeWrites, returned>>
    /\ UNCHANGED <<validatorVars, resolverVars, searchVars, paginationVars,
                 envelopeVars, dynamicVars>>

\* the predicates the strategy adds: a filter's ApplyFilters, a builder's
\* injected filter function
StructuredFilters ==
    IF entry \in FilterEntries THEN <<[text |-> "sport_id = ?", args |-> <<"1">>]>>
    ELSE IF entry = "PaginateWithFilter" THEN <<[text |-> "age > ?", args |-> <<"30">>]>>
    ELSE <<>>

ApplyStructuredFilters ==
    /\ pc = "filters"
    /\ exec' = [exec EXCEPT !.wheres = exec.wheres \o StructuredFilters,
                            !.steps = Append(@, "ApplyStructuredFilters")]
    /\ pc' = "search"
    /\ UNCHANGED <<entry, ctx, filter, storeRows, storeWrites, returned>>
    /\ UNCHANGED <<validatorVars, resolverVars, searchVars, paginationVars,
                 envelopeVars, dynamicVars>>

ApplySearch ==
    /\ pc = "search"
    /\ exec' = [exec EXCEPT
                  !.wheres = CreateSearchableFilter(
                                 IF entry = "QuickPaginate" THEN <<>> ELSE GetSearchFields,
                                 StoreDialect, exec.wheres, exec.pagination.Search),
                  !.steps = Append(@, "ApplySearch")]
    /\ pc' = "count"
    /\ UNCHANGED <<entry, ctx, filter, storeRows, storeWrites, returned>>
    /\ UNCHANGED <<validatorVars, resolverVars, searchVars, paginationVars,
                 envelopeVars, dynamicVars>>

\* a query that leaves the predicates out
QueryUnfiltered ==
    [wheres |-> <<>>, paged |-> exec.paged, limit |-> exec.limit,
     offset |-> exec.offset]

\* the query as the executor has built it so far
QueryBuilt ==
    [wheres |-> exec.wheres, paged |-> exec.paged, limit |-> exec.limit,
     offset |-> exec.offset]

\* the count query succeeds with the number of matching rows, or the store fails
Count ==
    /\ pc = "count"
    /\ \/ /\ exec' = [exec EXCEPT !.total = storeRows,
                                  !.countQuery = QueryBuilt,
                                  !.steps = Append(@, "Count")]
          /\ pc' = "sort"
       \/ /\ exec' = [exec EXCEPT !.err = "count failed", !.failedAt = "count",
                                  !.countQuery = QueryBuilt,
                                  !.steps = Append(@, "Count")]
          /\ pc' = "assemble"
    /\ UNCHANGED <<entry, ctx, filter, storeRows, storeWrites, returned>>
    /\ UNCHANGED <<validatorVars, resolverVars, searchVars, paginationVars,
                 envelopeVars, dynamicVars>>

\* the ORDER BY text of a request
ResolveSort(p) ==
    IF isValidSortField(p.Sort)
    THEN Str(p.Sort) \o " " \o p.Order
    ELSE GetDefaultSort

ApplySortAndPage ==
    /\ pc = "sort"
    /\ exec' = [exec EXCEPT
                  !.orderBy = ResolveSort(exec.pagination),
                  !.paged = ~exec.pagination.IsDisabled,
                  !.offset = IF exec.pagination.IsDisabled THEN 0
                             ELSE GetOffset(exec.pagination).ret,
                  !.limit = IF exec.pagination.IsDisabled THEN 0
                            ELSE GetLimit(exec.pagination).ret,
                  !.steps = Append(@, "ApplySortAndPage")]
    /\ pc' = "includes"
    /\ UNCHANGED <<entry, ctx, filter, storeRows, storeWrites, returned>>
    /\ UNCHANGED <<validatorVars, resolverVars, searchVars, paginationVars,
                 envelopeVars, dynamicVars>>

ApplyIncludes ==
    /\ pc = "includes"
    /\ exec' = [exec EXCEPT !.preloads = SelectSeq(exec.includes, isValidInclude),
                            !.steps = Append(@, "ApplyIncludes")]
    /\ pc' = "fetch"
    /\ UNCHANGED <<entry, ctx, filter, storeRows, storeWrites, returned>>
    /\ UNCHANGED <<validatorVars, resolverVars, searchVars, paginationVars,
                 envelopeVars, dynamicVars>>

Min(a, b) == IF a <= b THEN a ELSE b

\* the fetch without limit and offset
FetchedRowsUnpaged == [i \in 1..storeRows |-> i]

\* the rows of the store that the fetch query selects
FetchedRows ==
    LET matching == [i \in 1..storeRows |-> i]
    IN  IF exec.paged
        THEN SubSeq(matching, exec.offset + 1, Min(exec.offset + exec.limit, storeRows))
        ELSE matching

\* the fetch query succeeds, or the store fails after some of the rows
Fetch ==
    /\ pc = "fetch"
    /\ \/ exec' = [exec EXCEPT !.data = Rows(FetchedRows),
                               !.fetchQuery = QueryBuilt,
                               !.steps = Append(@, "Fetch")]
       \/ \E k \in 0..Len(FetchedRows) :
            exec' = [exec EXCEPT !.data = Rows(SubSeq(FetchedRows, 1, k)),
                                 !.err = "fetch failed", !.failedAt = "fetch",
                                 !.fetchQuery = QueryBuilt,
                                 !.steps = Append(@, "Fetch")]
    /\ pc' = "assemble"
    /\ UNCHANGED <<entry, ctx, filter, storeRows, storeWrites, returned>>
    /\ UNCHANGED <<validatorVars, resolverVars, searchVars, paginationVars,
                 envelopeVars, dynamicVars>>

\* Another client inserts or deletes matching rows after the count and before
\* the fetch; the two queries share no transaction. (A write before the count
\* or after the fetch is a request against a different store.)
ConcurrentWrite ==
    /\ pc \in {"sort", "includes", "fetch"}
    /\ storeWrites < MaxWrites
    /\ \E n \in 0..MaxRows :
         /\ n # storeRows
         /\ storeRows' = n
    /\ storeWrites' = storeWrites + 1
    /\ UNCHANGED <<entry, ctx, filter, pc, exec, returned>>
    /\ UNCHANGED <<validatorVars, resolverVars, searchVars, paginationVars,
                   envelopeVars, dynamicVars>>

\* a request without sort, search, includes and binding failure
PlainRequest ==
    /\ ctx.sort = <<>>
    /\ ctx.order = ""
    /\ ctx.search = ""
    /\ ctx.includes = <<>>
    /\ ~ctx.bindError

\* What the query returns to the entry point: PaginatedQuery gives up its rows
\* and total with an error; a query function of the query layer is the
\* handler's and returns what it holds.
QueryResult ==
    IF exec.err # "" /\ entry # "PaginatedAPIResponseWithQueryLayer"
    THEN [data |-> Nil, total |-> 0, err |-> exec.err]
    ELSE [data |-> exec.data, total |-> exec.total, err |-> exec.err]

\* a helper that computes the page metadata whatever the query returned
PaginateReturnKeepsPage(q, p) ==
    [data |-> q.data, pagination |-> CalculatePagination(p, q.total), err |-> q.err]

\* the tail of every Paginate* helper
PaginateReturn(q, p) ==
    IF q.err # ""
    THEN [data |-> Nil, pagination |-> ZeroPaginationResponse, err |-> q.err]
    ELSE [data |-> q.data, pagination |-> CalculatePagination(p, q.total), err |-> ""]

\* the tail of every PaginatedAPIResponse* helper
APIResponse(r, message) ==
    IF r.err # ""
    THEN NewPaginatedResponse(500, "Internal Server Error: " \o r.err,
                              Nil, ZeroPaginationResponse)
    ELSE NewPaginatedResponse(200, message, r.data, r.pagination)

\* PaginateWithCustomFilter after the binding
PaginateWithCustomFilter ==
    IF exec.failedAt = "bind"
    THEN [data |-> Nil, pagination |-> ZeroPaginationResponse, err |-> exec.err]
    ELSE PaginateReturn(QueryResult, filter.Pagination)

\* PaginatedAPIResponseWithQueryLayer after the binding
PaginatedAPIResponseWithQueryLayer ==
    IF exec.failedAt = "bind"
    THEN NewPaginatedResponse(400, "Invalid query parameters: " \o exec.err,
                              Nil, ZeroPaginationResponse)
    ELSE APIResponse(PaginateReturn(QueryResult, filter.Pagination), "ok")

Returns(values) == [NothingReturned EXCEPT !.values = values]
Responds(response) == [NothingReturned EXCEPT !.response = response]

\* the entry point returns to the handler
Return ==
    /\ pc = "assemble"
    /\ returned' =
         CASE entry \in PaginateEntries \ {"PaginateWithCustomFilter"} ->
                Returns(PaginateReturn(QueryResult, filter.Pagination))
           [] entry = "PaginateWithCustomFilter" ->
                Returns(PaginateWithCustomFilter)
           [] entry \in {"PaginatedAPIResponse", "PaginatedAPIResponseWithIncludes"} ->
                Responds(APIResponse(PaginateReturn(QueryResult, filter.Pagination), "ok"))
           [] entry = "PaginatedAPIResponseWithCustomFilter" ->
                Responds(APIResponse(PaginateWithCustomFilter, "ok"))
           [] entry = "PaginatedAPIResponseWithQueryLayer" ->
                Responds(PaginatedAPIResponseWithQueryLayer)
           [] entry = "BindAndValidateFilter" ->
                Returns([data |-> Nil, pagination |-> ZeroPaginationResponse,
                         err |-> exec.err])
    \* the helpers compute the page metadata once the query has succeeded
    /\ exec' = IF entry # "BindAndValidateFilter" /\ exec.err = ""
               THEN [exec EXCEPT !.calls = Append(@, "CalculatePagination")]
               ELSE exec
    /\ pc' = "returned"
    /\ UNCHANGED <<entry, ctx, filter, storeRows, storeWrites>>
    /\ UNCHANGED <<validatorVars, resolverVars, searchVars, paginationVars,
                 envelopeVars, dynamicVars>>

-----------------------------------------------------------------------------
(* Specifications *)

ValidatorNext == CallIsValidSortField \/ CallIsValidInclude

InitValidators ==
    ValidatorInit /\ ResolverIdle /\ SearchIdle /\ RequestIdle /\ PaginationIdle
    /\ EnvelopeIdle /\ DynamicIdle

SpecValidators == InitValidators /\ [][ValidatorNext]_vars

ResolverNext == Validate

InitIncludes ==
    ValidatorIdle /\ ResolverInit /\ SearchIdle /\ RequestIdle /\ PaginationIdle
    /\ EnvelopeIdle /\ DynamicIdle

SpecIncludes == InitIncludes /\ [][ResolverNext]_vars

SearchNext == WithDialect \/ ApplySearchClause

InitSearch ==
    ValidatorIdle /\ ResolverIdle /\ SearchInit /\ RequestIdle /\ PaginationIdle
    /\ EnvelopeIdle /\ DynamicIdle

SpecSearch == InitSearch /\ [][SearchNext]_vars

DynamicNext == ApplyDynamicFilters

InitDynamic ==
    ValidatorIdle /\ ResolverIdle /\ SearchIdle /\ RequestIdle /\ PaginationIdle
    /\ EnvelopeIdle /\ DynamicInit

SpecDynamic == InitDynamic /\ [][DynamicNext]_vars

EnvelopeNext == CallNewPaginatedResponse

InitEnvelope ==
    ValidatorIdle /\ ResolverIdle /\ SearchIdle /\ RequestIdle /\ PaginationIdle
    /\ EnvelopeInit /\ DynamicIdle

SpecEnvelope == InitEnvelope /\ [][EnvelopeNext]_vars

PaginationNext ==
    \/ CallBindPagination
    \/ CallValidate
    \/ CallGetOffset
    \/ CallGetLimit
    \/ CallCalculatePagination

InitPagination ==
    ValidatorIdle /\ ResolverIdle /\ SearchIdle /\ RequestIdle /\ PaginationInit
    /\ EnvelopeIdle /\ DynamicIdle

SpecPagination == InitPagination /\ [][PaginationNext]_vars

Next ==
    \/ BindRequest
    \/ ValidateFilter
    \/ Normalize
    \/ ApplyStructuredFilters
    \/ ApplySearch
    \/ Count
    \/ ApplySortAndPage
    \/ ApplyIncludes
    \/ Fetch
    \/ Return

ConcurrentNext ==
    \/ BindRequest
    \/ ValidateFilter
    \/ Normalize
    \/ ApplyStructuredFilters
    \/ ApplySearch
    \/ Count
    \/ ApplySortAndPage
    \/ ApplyIncludes
    \/ ConcurrentWrite
    \/ Fetch
    \/ Return

InitConcurrent ==
    ValidatorIdle /\ ResolverIdle /\ SearchIdle /\ RequestInit /\ PlainRequest
    /\ PaginationIdle /\ EnvelopeIdle /\ DynamicIdle

SpecConcurrent == InitConcurrent /\ [][ConcurrentNext]_vars

Init ==
    ValidatorIdle /\ ResolverIdle /\ SearchIdle /\ RequestInit /\ PaginationIdle
    /\ EnvelopeIdle /\ DynamicIdle

Spec == Init /\ [][Next]_vars

-----------------------------------------------------------------------------
(* Claims: the field validators *)

NameHasUnsafeChar ==
    \E i \in 1..Len(name) : name[i] \in {" ", "'", ";", "\"", "\t"}

\* C3: isValidSortField(name) is true exactly when name matches
\* ^[a-zA-Z_][a-zA-Z0-9_.]*$; it accepts "name", "user.name" and "created_at"
\* and rejects the empty string and every string with whitespace, a quote or
\* a semicolon.
C3_SortFieldPattern ==
    validatorCalled = "isValidSortField" =>
        /\ validatorResult =
              (/\ Len(name) >= 1
               /\ name[1] \in FirstClass
               /\ \A i \in 2..Len(name) : name[i] \in RestClass)
        /\ (name \in {S_name, S_user_name, S_created_at} => validatorResult)
        /\ (name \in {<<>>, S_name_drop, S_name_or} => ~validatorResult)
        /\ (NameHasUnsafeChar => ~validatorResult)

C3_Witness ==
    /\ validatorCalled = "isValidSortField"
    /\ name = S_user_name
    /\ validatorResult = TRUE

\* C4: isValidInclude(name) is true exactly when name is non-empty and every
\* character is a letter, a digit, an underscore or a dot; "Posts" and
\* "User.Profile" pass, "" and "Posts; DROP TABLE" fail.
C4_IncludePattern ==
    validatorCalled = "isValidInclude" =>
        /\ validatorResult =
              (/\ name # <<>>
               /\ \A i \in 1..Len(name) : name[i] \in RestClass)
        /\ (name \in {S_Posts, S_User_Profile} => validatorResult)
        /\ (name \in {<<>>, S_Posts_drop} => ~validatorResult)

C4_Witness ==
    /\ validatorCalled = "isValidInclude"
    /\ name = S_User_Profile
    /\ validatorResult = TRUE

-----------------------------------------------------------------------------
(* Claims: the include resolver *)

AllowedAndValid(include) ==
    MapLookup(allowedIncludes, include) /\ isValidInclude(include)

\* C1: after Validate() the filter's includes are exactly the requested names
\* whose allow-list value is true and that pass isValidInclude, in request
\* order.
C1_IncludeResolution ==
    validateCalled =>
        filterIncludes = SelectSeq(requestedIncludes, AllowedAndValid)

-----------------------------------------------------------------------------
(* Claims: the search clause builder *)

QueryTexts(q) == [i \in 1..Len(q) |-> q[i].text]

\* "f1 op ? OR f2 op ? OR ... OR fk op ?", built from the left
RECURSIVE OrChain(_, _, _)
OrChain(fields, op, k) ==
    IF k = 1 THEN fields[1] \o " " \o op \o " ?"
    ELSE OrChain(fields, op, k - 1) \o " OR " \o fields[k] \o " " \o op \o " ?"

ExpectedOperator == IF dialect = "PostgreSQL" THEN "ILIKE" ELSE "LIKE"

AddedClause == query[Len(query)]

\* C7: for a fixed field list and dialect the predicate text is the same for
\* any two non-empty search terms; the term is found only in the bound
\* parameters, as %term%.
C7_TermOnlyInParameters ==
    (searchApplied /\ searchTerm # "") =>
        /\ \A t \in SearchTerms \ {""} :
              QueryTexts(CreateSearchableFilter(searchFields, dialect, baseQuery, t))
                = QueryTexts(query)
        /\ \A i \in (Len(baseQuery) + 1)..Len(query) :
              /\ Len(query[i].args) >= 1
              /\ \A j \in 1..Len(query[i].args) :
                    query[i].args[j] = "%" \o searchTerm \o "%"

C7_Witness ==
    /\ searchApplied
    /\ searchTerm = "x' OR '1'='1"
    /\ Len(searchFields) = 2
    /\ Len(query) = Len(baseQuery) + 1
    /\ AddedClause.args = <<"%x' OR '1'='1%", "%x' OR '1'='1%">>

\* C8: no fields or no term leaves the query unchanged; one field adds
\* "field OP ?" bound to %term%; n >= 2 fields add one parenthesized OR of
\* "field_i OP ?" in the given order with n parameters, all %term%.
C8_SearchClauseShape ==
    searchApplied =>
        LET n == Len(searchFields)
            pattern == "%" \o searchTerm \o "%"
        IN  /\ (n = 0 \/ searchTerm = "") => query = baseQuery
            /\ (n = 1 /\ searchTerm # "") =>
                  query = baseQuery \o
                            <<[text |-> searchFields[1] \o " " \o ExpectedOperator \o " ?",
                               args |-> <<pattern>>]>>
            /\ (n >= 2 /\ searchTerm # "") =>
                  /\ Len(query) = Len(baseQuery) + 1
                  /\ SubSeq(query, 1, Len(baseQuery)) = baseQuery
                  /\ AddedClause.text =
                        "(" \o OrChain(searchFields, ExpectedOperator, n) \o ")"
                  /\ AddedClause.args = [i \in 1..n |-> pattern]
            /\ (/\ searchFields = <<"name", "email">>
                /\ dialect = "SQLite"
                /\ searchTerm = "john") =>
                  AddedClause = [text |-> "(name LIKE ? OR email LIKE ?)",
                                 args |-> <<"%john%", "%john%">>]

C8_Witness ==
    /\ searchApplied
    /\ searchFields = <<"name", "email">>
    /\ searchTerm = "john"
    /\ baseQuery = FilteredQuery
    /\ Len(query) = 2

\* C9: the search operator is ILIKE exactly when the dialect is PostgreSQL and
\* LIKE otherwise, both in the clause the search function builds and from
\* GetSearchOperator, whatever the dialect was before the last WithDialect.
C9_OperatorByDialect ==
    /\ GetSearchOperator(dialect) = ExpectedOperator
    /\ (searchApplied /\ searchFields # <<>> /\ searchTerm # "") =>
          AddedClause.text =
            IF Len(searchFields) = 1
            THEN OrChain(searchFields, ExpectedOperator, 1)
            ELSE "(" \o OrChain(searchFields, ExpectedOperator, Len(searchFields)) \o ")"

C9_Witness ==
    /\ searchApplied
    /\ withDialectCalls = MaxDialectCalls
    /\ dialect = "PostgreSQL"
    /\ searchFields = <<"name">>
    /\ searchTerm = "john"
    /\ AddedClause.text = "name ILIKE ?"

-----------------------------------------------------------------------------
(* Claims: the request entry points *)

StepTaken(step) == \E i \in 1..Len(exec.steps) : exec.steps[i] = step

AllowedByFilter(include) ==
    MapLookup(GetAllowedIncludes, include) /\ isValidInclude(include)

AllAllowed(incl) == \A i \in 1..Len(incl) : AllowedByFilter(incl[i])

\* C2: on every entry point that takes the include list from the request, the
\* include list that reaches the query holds only relations that passed the
\* allow-list and the name validator, and no other relation is preloaded.
C2_OnlyAllowedIncludesReachQuery ==
    entry \in FilterEntries =>
        /\ AllAllowed(exec.includes)
        /\ AllAllowed(exec.preloads)
        /\ (entry = "BindAndValidateFilter" /\ pc = "returned"
              /\ returned.values.err = "") => AllAllowed(filter.Includes)

\* the order of the request: desc when asked for, asc otherwise
RequestedOrder == IF ctx.order = "desc" THEN "desc" ELSE "asc"

C6_CommaSortFormat ==
    (StepTaken("ApplySortAndPage") /\ ctx.sort = S_name_desc /\ ctx.order = "") =>
        exec.orderBy = "name desc"

\* C10: when the count or the fetch fails, a Paginate* helper returns nil
\* rows, a zero PaginationResponse and the error, and a PaginatedAPIResponse*
\* helper an envelope with code 500, status error, nil data and zero
\* pagination.
C10_NoPartialPage ==
    (pc = "returned" /\ exec.failedAt \in {"count", "fetch"}) =>
        /\ entry \in PaginateEntries =>
              /\ exec.err # ""
              /\ returned.values =
                    [data |-> Nil, pagination |-> ZeroPaginationResponse,
                     err |-> exec.err]
        /\ entry \in APIEntries =>
              /\ returned.response.Code = 500
              /\ returned.response.Status = "error"
              /\ returned.response.Data = Nil
              /\ returned.response.Pagination = ZeroPaginationResponse

C10_Witness ==
    /\ pc = "returned"
    /\ entry = "PaginatedAPIResponseWithQueryLayer"
    /\ exec.failedAt = "fetch"
    /\ exec.total = MaxRows
    /\ Len(exec.data.rows) >= 1
    /\ returned.response.Code = 500
    /\ returned.response.Data = Nil

-----------------------------------------------------------------------------
(* Claims: the pagination request *)

\* C11: no entry point rejects a request because of a malformed query
\* parameter: unless the store fails, the entry point returns no error and no
\* error envelope, and an entry point that runs a query has run it.
C11_BindingNeverRejects ==
    (pc = "returned" /\ exec.failedAt \notin {"count", "fetch"}) =>
        /\ returned.values.err = ""
        /\ returned.response.Status # "error"
        /\ (entry # "BindAndValidateFilter" => StepTaken("Fetch"))

\* C12: whatever the query parameters are, the request BindPagination returns
\* has page >= 1, 1 <= perPage <= 100 and order asc or desc; without
\* parameters it is page 1, perPage 10, order asc, not disabled.
C12_BindPaginationRange ==
    pgMethod = "BindPagination" =>
        /\ pgRequest.Page >= 1
        /\ pgRequest.PerPage >= 1
        /\ pgRequest.PerPage <= 100
        /\ pgRequest.Order \in {"asc", "desc"}
        /\ pgParams = NoParams =>
             pgRequest = [Page |-> 1, PerPage |-> 10, Search |-> "", Sort |-> <<>>,
                          Order |-> "asc", IsDisabled |-> FALSE]
        /\ (pgParams.page = <<"2">> /\ pgParams.per_page = <<"2","0">>
              /\ pgParams.order = "desc") =>
             (pgRequest.Page = 2 /\ pgRequest.PerPage = 20 /\ pgRequest.Order = "desc")

C12_Witness ==
    /\ pgMethod = "BindPagination"
    /\ pgParams.page = <<"9","9","9","9","9">>
    /\ pgParams.per_page = <<"1","0","1">>
    /\ pgParams.order = "DESC"
    /\ pgRequest.Page = 1
    /\ pgRequest.PerPage = 10
    /\ pgRequest.Order = "asc"

\* C13: once Validate() has been called on a request, whatever the request
\* was, page >= 1, perPage >= 1 and order is asc or desc, and this still holds
\* after every further Validate(), GetOffset() and GetLimit() call.
C13_ValidatedStaysValid ==
    pgValidated =>
        /\ pgRequest.Page >= 1
        /\ pgRequest.PerPage >= 1
        /\ pgRequest.Order \in {"asc", "desc"}

C13_Witness ==
    /\ pgValidated
    /\ pgParams = NoParams
    /\ pgCalls = MaxCalls
    /\ pgMethod \in {"GetOffset", "GetLimit"}
    /\ pgRequest = [Page |-> 1, PerPage |-> 10, Search |-> "", Sort |-> <<>>,
                    Order |-> "asc", IsDisabled |-> TRUE]

\* C14: after normalization of any request, also one a program built itself
\* and never bound from query parameters, perPage lies within 1..100.
C14_PerPageWithinLimit ==
    pgValidated => (pgRequest.PerPage >= 1 /\ pgRequest.PerPage <= 100)

\* C15: Validate() sets page to 1 when page <= 0, perPage to 10 when
\* perPage <= 0 and order to asc when order is neither asc nor desc (empty and
\* "DESC" included), and leaves a page >= 1, a perPage >= 1 and an order of
\* asc or desc as they are.
C15_ValidateClamps ==
    pgMethod = "Validate" =>
        /\ pgRequest.Page = IF pgBefore.Page <= 0 THEN 1 ELSE pgBefore.Page
        /\ pgRequest.PerPage = IF pgBefore.PerPage <= 0 THEN 10 ELSE pgBefore.PerPage
        /\ pgRequest.Order = IF pgBefore.Order \in {"asc", "desc"}
                             THEN pgBefore.Order ELSE "asc"

C15_Witness ==
    /\ pgMethod = "Validate"
    /\ pgBefore.Page = -1
    /\ pgBefore.PerPage = MinInt
    /\ pgBefore.Order = "DESC"
    /\ pgRequest.Page = 1
    /\ pgRequest.PerPage = 10
    /\ pgRequest.Order = "asc"

\* the page GetOffset() and Validate() work with
ClampedPage(page) == IF page >= 1 THEN page ELSE 1

\* C16: GetOffset() returns (p - 1) * perPage, the product of the two ints,
\* where p is the page when page >= 1 and 1 otherwise; it returns 0 for every
\* page <= 1 (page 2 with perPage 10 gives 10, page 0 or -1 gives 0).
C16_GetOffset ==
    pgMethod = "GetOffset" =>
        LET product == (ClampedPage(pgBefore.Page) - 1) * pgBefore.PerPage
        IN  /\ pgResult = WrapInt(product)
            /\ (product >= MinInt /\ product <= MaxInt) => pgResult = product
            /\ pgBefore.Page <= 1 => pgResult = 0
            /\ (pgBefore.Page = 2 /\ pgBefore.PerPage = 10) => pgResult = 10

C16_Witness ==
    /\ pgMethod = "GetOffset"
    /\ pgBefore.Page = -1
    /\ pgBefore.PerPage = 10
    /\ pgRequest.Page = 1
    /\ pgResult = 0

\* C17: GetLimit() returns perPage when perPage >= 1 and 10 when
\* perPage <= 0; the result is always >= 1.
C17_GetLimit ==
    pgMethod = "GetLimit" =>
        /\ pgResult = IF pgBefore.PerPage >= 1 THEN pgBefore.PerPage ELSE 10
        /\ pgResult >= 1

C17_Witness ==
    /\ pgMethod = "GetLimit"
    /\ pgBefore.PerPage = -10
    /\ pgResult = 10
    /\ pgRequest.PerPage = 10

\* ceil(total / perPage) in exact integer arithmetic, for perPage >= 1
ExactCeil(total, perPage) == (total + perPage - 1) \div perPage

\* C18: for a request that is not disabled and has perPage >= 1, and every
\* total >= 0, CalculatePagination returns maxPage = max(1, ceil(total /
\* perPage)) exactly, and the request's page and perPage and the total.
C18_ExactMaxPage ==
    (pgMethod = "CalculatePagination" /\ ~pgBefore.IsDisabled
        /\ pgBefore.PerPage >= 1) =>
        /\ pgResponse.MaxPage =
              IF ExactCeil(pgTotal, pgBefore.PerPage) < 1 THEN 1
              ELSE ExactCeil(pgTotal, pgBefore.PerPage)
        /\ pgResponse.Page = pgBefore.Page
        /\ pgResponse.PerPage = pgBefore.PerPage
        /\ pgResponse.Total = pgTotal

\* C19: for a disabled request CalculatePagination returns page 1, perPage =
\* total, maxPage 1, the total and isDisabled = true, whatever the request's
\* page and perPage are.
C19_DisabledResponse ==
    (pgMethod = "CalculatePagination" /\ pgBefore.IsDisabled) =>
        pgResponse = [Page |-> 1, PerPage |-> pgTotal, MaxPage |-> 1,
                      Total |-> pgTotal, IsDisabled |-> TRUE]

C19_Witness ==
    /\ pgMethod = "CalculatePagination"
    /\ pgBefore.IsDisabled
    /\ pgBefore.Page = -1
    /\ pgBefore.PerPage = 0
    /\ pgTotal = 25
    /\ pgResponse.PerPage = 25
    /\ pgResponse.MaxPage = 1

\* C20: every response of CalculatePagination, for the request as it is
\* stored (validated or not) and every total >= 0, has maxPage >= 1, and
\* maxPage = 1 when the total is 0 or the request is disabled.
C20_MaxPageAtLeastOne ==
    pgMethod = "CalculatePagination" =>
        /\ pgResponse.MaxPage >= 1
        /\ (pgTotal = 0 \/ pgBefore.IsDisabled) => pgResponse.MaxPage = 1

-----------------------------------------------------------------------------
(* Claims: the executor and the envelope *)

Max(a, b) == IF a >= b THEN a ELSE b

\* C21: against a store that holds N matching rows and does not change, a
\* request that is not disabled, with page p and perPage s, run through
\* PaginateModel returns min(s, max(0, N - (p-1)*s)) rows, total = N and
\* maxPage = max(1, ceil(N/s)); N = 5, p = 1, s = 2 gives 2 rows, maxPage 3,
\* total 5.
C21_EndToEndPage ==
    (pc = "returned" /\ entry = "PaginateModel" /\ exec.failedAt = ""
        /\ ~filter.Pagination.IsDisabled) =>
        LET p == filter.Pagination.Page
            s == filter.Pagination.PerPage
            N == storeRows
        IN  /\ p >= 1
            /\ s >= 1
            /\ s <= 100
            /\ returned.values.err = ""
            /\ ~returned.values.data.nil
            /\ Len(returned.values.data.rows) = Min(s, Max(0, N - (p - 1) * s))
            /\ returned.values.pagination.Total = N
            /\ returned.values.pagination.MaxPage = Max(1, ExactCeil(N, s))
            /\ returned.values.pagination.Page = p
            /\ returned.values.pagination.PerPage = s

C21_Witness ==
    /\ pc = "returned"
    /\ entry = "PaginateModel"
    /\ exec.failedAt = ""
    /\ storeRows = 5
    /\ ctx.page = <<>>
    /\ ctx.per_page = <<"2">>
    /\ ctx.is_disabled = <<>>
    /\ Len(returned.values.data.rows) = 2
    /\ returned.values.pagination.MaxPage = 3
    /\ returned.values.pagination.Total = 5


\* C22: NewPaginatedResponse sets the status to error exactly when code >= 400
\* and to success otherwise, and copies code, message, data and pagination
\* into the envelope unchanged.
C22_EnvelopeStatus ==
    envCalled =>
        /\ (envResponse.Status = "error") <=> (envArgs.code >= 400)
        /\ envResponse.Status \in {"error", "success"}
        /\ envResponse.Code = envArgs.code
        /\ envResponse.Message = envArgs.message
        /\ envResponse.Data = envArgs.data
        /\ envResponse.Pagination = envArgs.pagination

C22_Witness ==
    /\ envCalled
    /\ envArgs.code = 400
    /\ envArgs.message = "Bad Request"
    /\ envArgs.data = Nil
    /\ envResponse.Status = "error"
    /\ envResponse.Code = 400


\* the steps of the executor, in the order of the state machine
ExecutorOrder ==
    <<"Normalize", "ApplyStructuredFilters", "ApplySearch", "Count",
      "ApplySortAndPage", "ApplyIncludes", "Fetch">>

\* the predicates of a request: the strategy's filters, then the search
RequestPredicates ==
    CreateSearchableFilter(
        IF entry = "QuickPaginate" THEN <<>> ELSE GetSearchFields,
        StoreDialect, StructuredFilters, exec.pagination.Search)

\* C23: the executor steps of a request occur in the order Normalize,
\* ApplyStructuredFilters, ApplySearch, Count, ApplySortAndPage,
\* ApplyIncludes, Fetch, Assemble; the count runs on the filtered and searched
\* query without limit and offset, the fetch has the same predicates as the
\* count, and no fetch follows a failed count.
C23_ExecutorOrder ==
    /\ Len(exec.steps) <= Len(ExecutorOrder)
    /\ \A i \in 1..Len(exec.steps) : exec.steps[i] = ExecutorOrder[i]
    /\ StepTaken("Count") =>
          /\ exec.countQuery.wheres = RequestPredicates
          /\ ~exec.countQuery.paged
          /\ exec.countQuery.limit = 0
          /\ exec.countQuery.offset = 0
    /\ StepTaken("Fetch") =>
          /\ exec.fetchQuery.wheres = exec.countQuery.wheres
          /\ exec.failedAt # "count"
    /\ exec.failedAt = "count" => (~StepTaken("Fetch") /\ exec.steps[Len(exec.steps)] = "Count")
    /\ (pc = "returned" /\ exec.failedAt = "" /\ entry # "BindAndValidateFilter") =>
          exec.steps = ExecutorOrder

C23_Witness ==
    /\ pc = "returned"
    /\ entry = "PaginateWithCustomFilter"
    /\ ctx.search = "john"
    /\ exec.steps = ExecutorOrder
    /\ Len(exec.countQuery.wheres) = 2
    /\ exec.fetchQuery.wheres = exec.countQuery.wheres
    /\ exec.fetchQuery.paged
    /\ exec.fetchQuery.limit = 10


\* how many rows the requested page of the counted rows has
PageOfCounted ==
    IF exec.fetchQuery.paged
    THEN Min(exec.fetchQuery.limit, Max(0, exec.total - exec.fetchQuery.offset))
    ELSE exec.total

\* C24: the count and the fetch are two round trips without a common
\* snapshot. Without a write between them the rows fetched are the requested
\* page of the rows counted; the executor runs each of the two once, and a
\* request whose two queries succeed is answered without an error whether or
\* not a write came between them.
C24_CountFetchRace ==
    /\ (StepTaken("Fetch") /\ exec.failedAt = "" /\ storeWrites = 0) =>
          Len(exec.data.rows) = PageOfCounted
    /\ \A i, j \in 1..Len(exec.steps) :
          (exec.steps[i] = exec.steps[j]) => i = j
    /\ (pc = "returned" /\ exec.failedAt = "" /\ entry \in PaginateEntries) =>
          /\ returned.values.err = ""
          /\ returned.values.data = exec.data
          /\ returned.values.pagination.Total = exec.total

\* a response whose rows are more than the counted rows leave for the page
C24_Witness ==
    /\ pc = "returned"
    /\ entry = "PaginateModel"
    /\ storeWrites = 1
    /\ exec.failedAt = ""
    /\ returned.values.err = ""
    /\ Len(returned.values.data.rows) >
          Max(0, returned.values.pagination.Total - exec.fetchQuery.offset)


\* whether a row satisfies the i-th condition of the filter
Satisfies(age, i) == Holds(dfFilters[i].Operator, age, dfFilters[i].Value)

\* the left-to-right grouping of the first n conditions, where the logic of
\* condition n-1 stands between it and condition n
RECURSIVE LeftFold(_, _)
LeftFold(age, n) ==
    IF n = 0 THEN TRUE
    ELSE IF n = 1 THEN Satisfies(age, 1)
    ELSE IF dfFilters[n - 1].Logic = "OR"
    THEN LeftFold(age, n - 1) \/ Satisfies(age, n)
    ELSE LeftFold(age, n - 1) /\ Satisfies(age, n)

\* C25: the predicate of a dynamic filter is the strict left-to-right fold of
\* its conditions, AND having no precedence over OR, and the logic of a
\* condition joins it with the next one; the single condition age > 30
\* selects 2 of the rows with ages 25, 30, 35, 28, 32.
C25_DynamicFilterFold ==
    dfApplied =>
        /\ dfSelected = {age \in Ages : LeftFold(age, Len(dfFilters))}
        /\ Len(dfChain) = Len(dfFilters)
        /\ (Len(dfFilters) = 1 /\ dfFilters[1].Operator = ">"
              /\ dfFilters[1].Value = 30) => Cardinality(dfSelected) = 2

\* age > 30 OR age < 28 AND age = 28: no row, where AND before OR gives two
C25_Witness ==
    /\ dfApplied
    /\ Len(dfFilters) = 3
    /\ dfFilters[1] = [Field |-> "age", Operator |-> ">", Value |-> 30, Logic |-> "OR"]
    /\ dfFilters[2] = [Field |-> "age", Operator |-> "<", Value |-> 28, Logic |-> "AND"]
    /\ dfFilters[3].Operator = "="
    /\ dfFilters[3].Value = 28
    /\ dfSelected = {}


\* the calls of PaginatedAPIResponseWithQueryLayer in the order of its code
QueryLayerOrder ==
    <<"BindPagination", "ShouldBindQuery", "Validate", "queryFunc",
      "CalculatePagination">>

\* C26: PaginatedAPIResponseWithQueryLayer binds the pagination, binds the
\* filter parameters, calls Validate(), calls queryFunc and then
\* CalculatePagination, in that order: queryFunc runs at most once, never
\* before Validate(), and not at all when the binding failed, in which case a
\* code-400 envelope with nil data is returned and no query has run.
C26_QueryLayerOrder ==
    entry = "PaginatedAPIResponseWithQueryLayer" =>
        /\ Len(exec.calls) <= Len(QueryLayerOrder)
        /\ exec.calls = SubSeq(QueryLayerOrder, 1, Len(exec.calls))
        /\ Cardinality({i \in 1..Len(exec.calls) : exec.calls[i] = "queryFunc"}) <= 1
        /\ exec.steps # <<>> =>
             /\ Len(exec.calls) >= 4
             /\ exec.calls[3] = "Validate"
             /\ ~ctx.bindError
        /\ (pc = "returned" /\ ctx.bindError) =>
             /\ exec.calls = <<"BindPagination", "ShouldBindQuery">>
             /\ exec.steps = <<>>
             /\ exec.total = 0
             /\ exec.data = Nil
             /\ returned.response.Code = 400
             /\ returned.response.Status = "error"
             /\ returned.response.Data = Nil
        /\ (pc = "returned" /\ ~ctx.bindError) =>
             IF exec.err = ""
             THEN exec.calls = QueryLayerOrder /\ returned.response.Code = 200
             ELSE exec.calls = SubSeq(QueryLayerOrder, 1, 4)
                  /\ returned.response.Code = 500

\* a request whose parameters do not bind has been answered
C26_Witness ==
    /\ entry = "PaginatedAPIResponseWithQueryLayer"
    /\ pc = "returned"
    /\ ctx.bindError
    /\ returned.response.Code = 400
    /\ exec.calls = <<"BindPagination", "ShouldBindQuery">>


-----------------------------------------------------------------------------
(* Claims: the request's methods taken together *)

\* C27: for any PaginationRequest, validated or not, the offset GetOffset()
\* returns is (clamped page - 1) times the limit that GetLimit() returns, so
\* the pair (offset, limit) is the same whichever of the two is called first.
C27_OffsetLimitOrder ==
    pgMethod = "GetOffset" =>
        pgResult = WrapInt((ClampedPage(pgBefore.Page) - 1)
                           * GetLimit(GetOffset(pgBefore).p).ret)


\* C28: for every request BindPagination can return (any positive page the
\* query string holds, perPage in 1..100) GetOffset() is >= 0 and is the
\* mathematical product (page - 1) * perPage: the multiplication never wraps.
C28_OffsetNoWrap ==
    (pgMethod = "GetOffset" /\ pgBefore = BindPagination(pgParams)) =>
        /\ pgResult >= 0
        /\ pgResult = (pgBefore.Page - 1) * pgBefore.PerPage


\* C29: BindPagination ignores an unusable parameter and keeps the default,
\* it does not clamp: per_page that is not a number, <= 0 or > 100 gives
\* perPage 10, page that is not a number or <= 0 gives page 1, an order other
\* than exactly asc or desc gives asc; what one parameter gives does not
\* depend on the other parameters.
C29_UnusableIgnored ==
    pgMethod = "BindPagination" =>
        /\ pgRequest.PerPage =
             CASE pgParams.per_page = <<"2","0">> -> 20
               [] pgParams.per_page = <<"1","0","0">> -> 100
               [] OTHER -> 10
        /\ pgRequest.Page =
             CASE pgParams.page = <<"2">> -> 2
               [] pgParams.page = Itoa(MaxInt) -> MaxInt
               [] OTHER -> 1
        /\ pgRequest.Order =
             CASE pgParams.order = "asc" -> "asc"
               [] pgParams.order = "desc" -> "desc"
               [] OTHER -> "asc"

\* an unusable per_page next to a usable page and order
C29_Witness ==
    /\ pgMethod = "BindPagination"
    /\ pgParams.per_page = <<"1","0","1">>
    /\ pgParams.page = <<"2">>
    /\ pgParams.order = "desc"
    /\ pgRequest.PerPage = 10
    /\ pgRequest.Page = 2
    /\ pgRequest.Order = "desc"


\* C30: GetOffset() changes at most Page, GetLimit() at most PerPage,
\* Validate() at most Page, PerPage and Order; Search, Sort and IsDisabled are
\* never changed, and CalculatePagination leaves the caller's request as it
\* was before the call.
C30_Frame ==
    /\ pgMethod = "GetOffset" =>
         pgRequest = [pgBefore EXCEPT !.Page = pgRequest.Page]
    /\ pgMethod = "GetLimit" =>
         pgRequest = [pgBefore EXCEPT !.PerPage = pgRequest.PerPage]
    /\ pgMethod = "Validate" =>
         /\ pgRequest.Search = pgBefore.Search
         /\ pgRequest.Sort = pgBefore.Sort
         /\ pgRequest.IsDisabled = pgBefore.IsDisabled
    /\ pgMethod = "CalculatePagination" => pgRequest = pgBefore

\* Validate() has rewritten page, perPage and order of a request that
\* carries a search and a sort
C30_Witness ==
    /\ pgMethod = "Validate"
    /\ pgBefore.Search = "john"
    /\ pgBefore.Sort = S_name
    /\ pgBefore.IsDisabled
    /\ pgBefore.Page = 0
    /\ pgBefore.PerPage = 0
    /\ pgBefore.Order = "DESC"
    /\ pgRequest = [Page |-> 1, PerPage |-> 10, Search |-> "john", Sort |-> S_name,
                    Order |-> "asc", IsDisabled |-> TRUE]

=============================================================================
